---- MODULE Spec2Model ----
(***************************************************************************)
(* A model of the atmos library (src/mo.py, src/thermo.py): one caller     *)
(* that calls the library's functions one after the other.                 *)
(*                                                                         *)
(* Floating-point quantities are fixed-point integers; every definition    *)
(* states its unit.  Divisions round towards minus infinity.               *)
(*   mo.py      heights and Obukhov length in cm, temperatures in mK,      *)
(*              array samples and fluxes in 1/1000                         *)
(*   thermo.py  pressures in half-Pa (so that p+0.5*dp is a number of the  *)
(*              model), temperatures in micro-K, vapour pressure in Pa     *)
(* A function ends in an outcome: a returned value, or an exception that   *)
(* leaves the function ("raise").  What a function prints is in `printed`. *)
(***************************************************************************)
EXTENDS Integers, Sequences, FiniteSets, TLC

VARIABLES
    pc,          \* where the caller / the running function is
    fn,          \* the function being called ("none" when idle)
    args,        \* the arguments of the call, a record
    outcome,     \* [kind |-> "none" | "return" | "raise", val |-> the value]
    printed,     \* the messages written by print() during the call
    z, temp2,    \* compute_temp's locals
    pres, temp,  \* moist_adiabat's lists
    ip,          \* moist_adiabat: index of the next element of `for p in pres`
    stages,      \* moist_adiabat: the pressures dtdp was evaluated at
    heap,        \* the caller's argument objects (arrays are shared by reference)
    heap0,       \* their values when the current call was entered
    prevOutcome, \* the outcome of the previous call on the same objects
    ncalls       \* calls made so far on the same argument objects

vars == <<pc, fn, args, outcome, printed, z, temp2, pres, temp, ip, stages,
          heap, heap0, prevOutcome, ncalls>>

ctLocals == <<z, temp2>>
maLocals == <<pres, temp, ip, stages>>
heapVars == <<heap, heap0, prevOutcome, ncalls>>

(***************************************************************************)
(* Bounds of the model.                                                    *)
(***************************************************************************)
MaxN     == 2     \* arrays hold at most MaxN samples
MaxDP    == 3     \* moist_adiabat: p1 and p2 lie within MaxDP Pa of PBase
MaxCalls == 2     \* successive calls on the same argument objects
TempSpan == 200   \* compute_temp: temp2 is kept within TempSpan mK of temp1

(***************************************************************************)
(* Values and outcomes.                                                    *)
(***************************************************************************)
Num(n)  == [cls |-> "num", v |-> n]
NaN     == [cls |-> "nan", v |-> 0]
Inf(s)  == [cls |-> "inf", v |-> s]          \* s = 1: +inf, s = -1: -inf
NoValue == [cls |-> "none", v |-> 0]
Dict(p, t) == [cls |-> "dict", pres |-> p, temp |-> t]
ArrVal(a)  == [cls |-> "array", data |-> a]

NoOutcome   == [kind |-> "none", val |-> NoValue]
Return(v)   == [kind |-> "return", val |-> v]
Raise(what) == [kind |-> "raise", val |-> NoValue, exc |-> what]

Abs(n) == IF n < 0 THEN -n ELSE n
Sign(n) == IF n < 0 THEN -1 ELSE IF n > 0 THEN 1 ELSE 0
Min(a, b) == IF a < b THEN a ELSE b
Max(a, b) == IF a > b THEN a ELSE b

RECURSIVE SqrtSearch(_, _, _)
SqrtSearch(n, lo, hi) ==
    \* the largest r in lo..hi with r*r <= n  (lo*lo <= n is given)
    IF lo >= hi THEN lo
    ELSE LET mid == (lo + hi + 1) \div 2
         IN  IF mid * mid <= n THEN SqrtSearch(n, mid, hi)
                               ELSE SqrtSearch(n, lo, mid - 1)

ISqrt(n) == SqrtSearch(n, 0, 46340)

RECURSIVE SumSeq(_)
SumSeq(s) == IF s = <<>> THEN 0 ELSE Head(s) + SumSeq(Tail(s))

(***************************************************************************)
(* src/mo.py                                                               *)
(***************************************************************************)
k == 400          \* von Karman constant 0.40, in 1/1000
g == 9810         \* gravitational acceleration 9.81 m/s2, in 1/1000

\* Arrays: [shape |-> the numpy shape, data |-> the samples in C order].
Samples == {0, 1000}
SeqsOfLen(n) == [1..n -> Samples]
Shapes == {<<n>> : n \in 1..MaxN} \cup {<<1, n>> : n \in 1..MaxN}
              \cup {<<n, 1>> : n \in 1..MaxN}
RECURSIVE Size(_)
Size(shape) == IF shape = <<>> THEN 1 ELSE Head(shape) * Size(Tail(shape))
Arrays == UNION {{[shape |-> sh, data |-> d] : d \in SeqsOfLen(Size(sh))} : sh \in Shapes}

\* np.nanmean of an array of finite samples
nanmean(a) == SumSeq(a) \div Len(a)

\* a / b as numpy scalars divide: a zero divisor gives nan or inf, no exception
NpDiv(a, b) ==
    IF b = 0 THEN (IF a = 0 THEN NaN ELSE Inf(Sign(a)))
    ELSE Num((a * 1000) \div b)

\* the same with a divisor that may be nan or inf
NpDivVal(a, bv) ==
    CASE bv.cls = "num" -> NpDiv(a, bv.v)
      [] bv.cls = "inf" -> Num(0)
      [] OTHER          -> NaN

\* mo.py line 40: A.shape != w.shape
ShapesDiffer_size(A, w) == Len(A.data) # Len(w.data)
ShapesDiffer(A, w) == A.shape # w.shape

\* mo.py lines 44-50, for A and w of one shape
Flux(A, w) ==
    LET Abar   == nanmean(A.data)
        wbar   == nanmean(w.data)
        Aprime == [i \in 1..Len(A.data) |-> A.data[i] - Abar]
        wprime == [i \in 1..Len(w.data) |-> w.data[i] - wbar]
    IN  nanmean([i \in 1..Len(A.data) |-> (Aprime[i] * wprime[i]) \div 1000])

compute_flux(A, w) ==
    IF ShapesDiffer(A, w) THEN Raise("Both inputs must be same shape!")
    ELSE Return(Num(Flux(A, w)))

compute_ustar(u, v, w) ==
    LET uw == compute_flux(u, w)
    IN  IF uw.kind = "raise" THEN uw
        ELSE LET vw == compute_flux(v, w)
             IN  IF vw.kind = "raise" THEN vw
                 ELSE LET s == (uw.val.v * uw.val.v) \div 1000
                                 + (vw.val.v * vw.val.v) \div 1000
                      IN  Return(Num(ISqrt(ISqrt(s * 1000) * 1000)))

compute_tstar(temp_, w, ustar) ==
    LET uT == compute_flux(temp_, w)
    IN  IF uT.kind = "raise" THEN uT
        ELSE Return(NpDiv(-uT.val.v, ustar))

compute_L(temp_, w, ustar) ==
    LET num == -(((ustar * ustar) \div 1000) * ustar) \div 1000
        fl  == compute_flux(temp_, w)
    IN  IF fl.kind = "raise" THEN fl
        ELSE LET kgf == (((k * g) \div 1000) * fl.val.v) \div 1000
             IN  Return(NpDivVal(num, NpDiv(kgf, nanmean(temp_.data))))

\* compute_dTdz, for z >= 0.  z and L in cm, tstar in mK, the gradient in mK/m.
\* Python floats: tstar/(k*z) raises ZeroDivisionError at z = 0, 9.0*z/L at L = 0.
dTdzRaises(z_, L) == z_ = 0 \/ L = 0

compute_dTdz(z_, L, tstar, ustar) ==
    LET a == (tstar * 100000) \div (k * z_)          \* tstar/(k*z)
        b == (a * 74) \div 100                        \* ... * 0.74
    IN  IF L <= 0
        THEN LET x == 1000 - (9000 * z_) \div L       \* 1.0-9.0*z/L, in 1/1000
             IN  (b * (1000000 \div ISqrt(x * 1000))) \div 1000
        ELSE b + (4700 * z_) \div L

\* The accumulator temp2 has a finite range: it is kept within TempSpan of temp1.
ClampTemp(t, temp1) == Max(temp1 - TempSpan, Min(temp1 + TempSpan, t))

\* the loop guard of compute_temp, mo.py line 130
WhileGuard(z_, z2, tolerance) == Abs(z2 - z_) < tolerance

(***************************************************************************)
(* src/thermo.py                                                           *)
(***************************************************************************)
G   == 9807       \* 9.80665 m/s^2, in 1/1000
RD  == 287047     \* 287.047 J/kg/K, in 1/1000
RV  == 461500     \* 461.5 J/kg/K, in 1/1000
CP  == 1005       \* J/kg/K
LV0 == 2500000    \* J/kg
T0C == 273150000  \* 273.15 K in micro-K (the Kelvin -> Celsius offset)
dp  == -2         \* moist_adiabat's step, -1.0 Pa, in half-Pa

PBase == 100000   \* moist_adiabat is called with pressures from PBase Pa upwards

\* numpy.exp(x), x and the result in 1/1000; beyond |x| = 5 the result saturates.
ExpArgMax == 5000
RECURSIVE ExpTerms(_, _, _)
ExpTerms(x, term, n) ==
    \* the sum of the Taylor terms x^n/n!, x^(n+1)/(n+1)!, ... from `term` on
    IF term = 0 THEN 0
    ELSE term + ExpTerms(x, (term * x) \div (1000 * (n + 1)), n + 1)

ExpMilli(x) ==
    LET c == Max(-ExpArgMax, Min(ExpArgMax, x))
        e == ExpTerms(Abs(c), 1000, 0)
    IN  IF c >= 0 THEN e ELSE 1000000 \div e

\* numpy.log(r), r and the result in 1/1000, for r > 0
RECURSIVE LnMilli(_)
LnMilli(r) ==
    IF r >= 2000 THEN 693 + LnMilli(r \div 2)
    ELSE IF r < 1000 THEN -LnMilli(1000000 \div r)
    ELSE LET y  == ((r - 1000) * 1000) \div (r + 1000)
             y3 == (((y * y) \div 1000) * y) \div 1000
             y5 == (((y3 * y) \div 1000) * y) \div 1000
         IN  2 * (y + y3 \div 3 + y5 \div 5)

\* 611.2*numpy.exp(17.67*temp/(temp+243.5)) of one Celsius value (micro-C), in Pa.
\* Where numpy divides (an array element), temp+243.5 = 0 raises nothing: the
\* quotient is -inf and exp gives 0.
Bolton(tc) ==
    LET tcd == tc \div 100000                      \* deci-C
        den == tcd + 2435
    IN  IF den = 0 THEN 0
        ELSE (6112 * ExpMilli((17670 * tcd) \div den)) \div 10000

\* sat_vaporpres(temp) called with the caller's object r of heap h.
\* A float is rebound locally by `temp -= 273.15`; a numpy array is changed in place.
sat_vaporpres(h, r) ==
    IF h[r].cls = "float"
    THEN LET tc == h[r].v - T0C
         IN  IF tc \div 100000 + 2435 = 0
             THEN [heap |-> h, out |-> Num(-1), printed |-> <<"float division by zero">>]
             ELSE [heap |-> h, out |-> Num(Bolton(tc)), printed |-> <<>>]
    ELSE LET d  == h[r].data
             tc == [i \in 1..Len(d) |-> d[i] - T0C]
         IN  [heap |-> [h EXCEPT ![r].data = tc],
              out |-> ArrVal([i \in 1..Len(d) |-> Bolton(tc[i])]),
              printed |-> <<>>]

\* a / b of two sat_vaporpres results (floats or 1-D arrays), as rh divides them.
\* The values are numpy's, so a zero divisor raises nothing; two arrays whose
\* lengths differ and are not 1 cannot be broadcast (ValueError).
DivideValues(a, b) ==
    IF a.cls = "num" /\ b.cls = "num"
    THEN [raises |-> FALSE, val |-> NpDiv(a.v, b.v)]
    ELSE LET da == IF a.cls = "num" THEN <<a.v>> ELSE a.data
             db == IF b.cls = "num" THEN <<b.v>> ELSE b.data
             n  == Max(Len(da), Len(db))
             at(s_, i) == IF Len(s_) = 1 THEN s_[1] ELSE s_[i]
         IN  IF Len(da) # Len(db) /\ Len(da) # 1 /\ Len(db) # 1
             THEN [raises |-> TRUE, msg |-> "operands could not be broadcast together"]
             ELSE [raises |-> FALSE,
                   val |-> ArrVal([i \in 1..n |-> NpDiv(at(da, i), at(db, i))])]

rh(h, dtemp, temp_) ==
    LET s1 == sat_vaporpres(h, dtemp)
        s2 == sat_vaporpres(s1.heap, temp_)
        q  == DivideValues(s1.out, s2.out)
        pr == s1.printed \o s2.printed
    IN  IF q.raises
        THEN [heap |-> s2.heap, out |-> Num(-1), printed |-> pr \o <<q.msg>>]
        ELSE [heap |-> s2.heap, out |-> q.val, printed |-> pr]

\* etow(pres, vpres) as dtdp calls it: the mixing ratio in 1/100000; pres in
\* half-Pa, vpres in Pa.  The pressures of the model exceed every vapour pressure.
etow(pres_, vpres) ==
    (((RD * 1000) \div (RV \div 100)) * vpres * 2) \div (pres_ - 2 * vpres)

\* dtdp(p, t), equation 7.37: p in half-Pa, t in micro-K, the result in micro-K/Pa;
\* sat_vaporpres(t) of a float t leaves t alone and is Bolton's formula
dtdp(p, t) ==
    LET ws  == etow(p, Bolton(t - T0C))
        tdK == t \div 100000                                     \* deci-K
        A   == ((((LV0 \div 1000) * ws * 100) \div (RD \div 10)) * 10000) \div tdK
                                                  \* LV0*ws/RD/t, in 1/100000
        Bv  == ((((LV0 \div 1000) * ws * 100) \div (RV \div 10)) * 10000) \div tdK
        B   == (Bv * ((LV0 * 100) \div ((CP * tdK) \div 10))) \div 100
                                                  \* LV0**2*ws/RV/CP/t**2, in 1/100000
        R   == ((100000 + A) * 1000) \div ((100000 + B) \div 100)
        tp  == (2 * t) \div p                                    \* t/p
    IN  ((((tp * RD) \div (CP * 1000)) * R) \div 100000)

\* numpy.arange(start, stop, step): ceil((stop-start)/step) elements from start on
arange(start, stop, step) ==
    [i \in 1..Max(0, -((start - stop) \div step)) |-> start + (i - 1) * step]

\* one pass of `for p in pres`: the Runge-Kutta step from temp[-1] at pressure p
RKStep(p, t) ==
    LET k1 == (dp * dtdp(p, t)) \div 2
        k2 == (dp * dtdp(p + dp \div 2, t + k1 \div 2)) \div 2
        k3 == (dp * dtdp(p + dp \div 2, t + k2 \div 2)) \div 2
        k4 == (dp * dtdp(p + dp, t + k3)) \div 2
    IN  t + (k1 + 2 * k2 + 2 * k3 + k4) \div 6

\* the pressures at which that pass evaluates dtdp
StagePoints(p) == {p, p + dp \div 2, p + dp}

\* hydrostatic(p1, p2, Tbar): p1, p2 in half-Pa, Tbar in K, the thickness in m.
\* p1/p2 raises ZeroDivisionError at p2 = 0; `except Exception` prints it.
hydrostatic_le(p1, p2, Tbar) ==
    IF p1 <= p2
    THEN [out |-> Num(-1),
          printed |-> <<"ERROR: Pressure at top of layer must be less than pressure at bottom!">>]
    ELSE IF p2 = 0
    THEN [out |-> Num(-1), printed |-> <<"float division by zero">>]
    ELSE [out |-> Num((((RD * Tbar) \div G) * LnMilli((p1 * 1000) \div p2)) \div 1000),
          printed |-> <<>>]
hydrostatic(p1, p2, Tbar) ==
    IF p1 < p2
    THEN [out |-> Num(-1),
          printed |-> <<"ERROR: Pressure at top of layer must be less than pressure at bottom!">>]
    ELSE IF p2 = 0
    THEN [out |-> Num(-1), printed |-> <<"float division by zero">>]
    ELSE [out |-> Num((((RD * Tbar) \div G) * LnMilli((p1 * 1000) \div p2)) \div 1000),
          printed |-> <<>>]

(***************************************************************************)
(* The caller: the arguments it passes.                                    *)
(***************************************************************************)
Heights    == {0, 100, 103, 200}          \* cm
Targets    == {0, 100, 200}               \* cm
Lengths    == {-1000, 0, 1000}            \* Obukhov lengths, cm
Tstars     == {-100, 0, 100}              \* mK
Ustars     == {0, 300}                    \* 1/1000 m/s
Pressures  == {2 * PBase + j : j \in 0..(2 * MaxDP)}          \* half-Pa
Temps      == {280000000, 300000000}      \* micro-K
HydroPres  == {0, 170000, 200000}         \* half-Pa
Tbars      == {0, 250, 300}               \* K
FloatTemps == {T0C, 300000000, 29650000}  \* micro-K
HeapVals   == {[cls |-> "float", v |-> t] : t \in FloatTemps}
                \cup UNION {{[cls |-> "array", data |-> d] :
                                d \in [1..n -> {T0C, 300000000}]} : n \in 1..MaxN}

Idle ==
    /\ pc = "idle" /\ fn = "none" /\ args = <<>>
    /\ outcome = NoOutcome /\ printed = <<>>
    /\ z = 0 /\ temp2 = 0
    /\ pres = <<>> /\ temp = <<>> /\ ip = 0 /\ stages = {}
    /\ heap = <<>> /\ heap0 = <<>> /\ prevOutcome = NoOutcome /\ ncalls = 0

Init == Idle

\* a function of mo.py without a loop, called and run to its end
Finished(f, a, o) ==
    /\ pc' = "done" /\ fn' = f /\ args' = a /\ outcome' = o
    /\ UNCHANGED <<printed, ctLocals, maLocals, heapVars>>

call_compute_flux ==
    /\ pc = "idle"
    /\ \E A \in Arrays, w \in Arrays :
            Finished("compute_flux", [A |-> A, w |-> w], compute_flux(A, w))

call_compute_ustar ==
    /\ pc = "idle"
    /\ \E u \in Arrays, v \in Arrays, w \in Arrays :
            Finished("compute_ustar", [u |-> u, v |-> v, w |-> w], compute_ustar(u, v, w))

call_compute_tstar ==
    /\ pc = "idle"
    /\ \E t \in Arrays, w \in Arrays, us \in Ustars :
            Finished("compute_tstar", [temp |-> t, w |-> w, ustar |-> us],
                 compute_tstar(t, w, us))

call_compute_L ==
    /\ pc = "idle"
    /\ \E t \in Arrays, w \in Arrays, us \in Ustars :
            Finished("compute_L", [temp |-> t, w |-> w, ustar |-> us], compute_L(t, w, us))

(***************************************************************************)
(* compute_temp, mo.py lines 123-138                                       *)
(***************************************************************************)
call_compute_temp ==
    /\ pc = "idle"
    /\ \E z1 \in Heights, z2 \in Targets, L \in Lengths, tstar \in Tstars :
        /\ fn' = "compute_temp"
        /\ args' = [z1 |-> z1, temp1 |-> 300000, L |-> L, tstar |-> tstar,
                    ustar |-> 300, z2 |-> z2, step_size |-> 10, tolerance |-> 5]
        /\ z' = z1
        /\ temp2' = 300000
        /\ pc' = "ct_while"
        /\ UNCHANGED <<outcome, printed, maLocals, heapVars>>

\* the test of `while (abs(z2-z) < tolerance)`; when it fails, `return temp2`
compute_temp_while ==
    /\ pc = "ct_while"
    /\ IF WhileGuard(z, args.z2, args.tolerance)
       THEN pc' = "ct_body" /\ UNCHANGED outcome
       ELSE pc' = "done" /\ outcome' = Return(Num(temp2))
    /\ UNCHANGED <<fn, args, printed, ctLocals, maLocals, heapVars>>

\* the loop body, lines 132-136: z is not assigned
compute_temp_body ==
    /\ pc = "ct_body"
    /\ LET h == args.step_size
       IN  IF dTdzRaises(z, args.L)
           THEN /\ pc' = "done"
                /\ outcome' = Raise("ZeroDivisionError")
                /\ UNCHANGED temp2
           ELSE LET k1 == compute_dTdz(z, args.L, args.tstar, args.ustar)
                    k2 == compute_dTdz(z + h \div 2, args.L, args.tstar, args.ustar)
                    k4 == compute_dTdz(z + h, args.L, args.tstar, args.ustar)
                IN  /\ temp2' = ClampTemp(temp2 + (h * (k1 + 4 * k2 + k4)) \div 600,
                                          args.temp1)
                    /\ pc' = "ct_while"
                    /\ UNCHANGED outcome
    /\ UNCHANGED <<fn, args, printed, z, maLocals, heapVars>>

(***************************************************************************)
(* moist_adiabat, thermo.py lines 127-156                                  *)
(***************************************************************************)
\* the entry test, line 135
Rejects_never(p1, p2) == FALSE
Rejects(p1, p2) == p1 < p2

\* lines 141 and 143
PresList_short(p1, p2) == arange(p1, p2, dp)
PresList(p1, p2) == arange(p1, p2 + dp, dp)
TempList(t1) == <<t1>>

\* line 150: temp.append(...)
AppendTemp_overwrite(tl, v) == [tl EXCEPT ![Len(tl)] = v]
AppendTemp(tl, v) == Append(tl, v)

call_moist_adiabat ==
    /\ pc = "idle"
    /\ \E p1 \in Pressures, p2 \in Pressures, t1 \in Temps :
        /\ fn' = "moist_adiabat"
        /\ args' = [p1 |-> p1, p2 |-> p2, t1 |-> t1]
        /\ IF Rejects(p1, p2)
           THEN /\ printed' = <<"p1 must be a larger pressure than p2.">>
                /\ outcome' = Return(Num(-1))
                /\ pc' = "done"
                /\ UNCHANGED <<pres, temp, ip>>
           ELSE /\ pres' = PresList(p1, p2)
                /\ temp' = TempList(t1)
                /\ ip' = 1
                /\ pc' = "ma_for"
                /\ UNCHANGED <<outcome, printed>>
        /\ UNCHANGED <<ctLocals, stages, heapVars>>

\* one pass of the loop, lines 145-150
moist_adiabat_step ==
    /\ pc = "ma_for"
    /\ ip <= Len(pres)
    /\ temp' = AppendTemp(temp, RKStep(pres[ip], temp[Len(temp)]))
    /\ stages' = stages \cup StagePoints(pres[ip])
    /\ ip' = ip + 1
    /\ UNCHANGED <<pc, fn, args, outcome, printed, pres, ctLocals, heapVars>>

\* line 152
moist_adiabat_return ==
    /\ pc = "ma_for"
    /\ ip > Len(pres)
    /\ outcome' = Return(Dict(pres, temp))
    /\ pc' = "done"
    /\ UNCHANGED <<fn, args, printed, maLocals, ctLocals, heapVars>>

(***************************************************************************)
(* hydrostatic, sat_vaporpres, rh                                          *)
(***************************************************************************)
call_hydrostatic ==
    /\ pc = "idle"
    /\ \E p1 \in HydroPres, p2 \in HydroPres, Tbar \in Tbars :
        LET r == hydrostatic(p1, p2, Tbar)
        IN  /\ pc' = "done" /\ fn' = "hydrostatic"
            /\ args' = [p1 |-> p1, p2 |-> p2, Tbar |-> Tbar]
            /\ outcome' = Return(r.out)
            /\ printed' = r.printed
            /\ UNCHANGED <<ctLocals, maLocals, heapVars>>

\* the call f(refs) on heap h; the caller keeps its references to the objects
RunOnHeap(f, refs, h) ==
    LET r == IF f = "sat_vaporpres" THEN sat_vaporpres(h, refs[1])
                                    ELSE rh(h, refs[1], refs[2])
    IN  /\ pc' = "done" /\ fn' = f /\ args' = refs
        /\ heap0' = h
        /\ heap' = r.heap
        /\ outcome' = Return(r.out)
        /\ printed' = r.printed
        /\ prevOutcome' = outcome
        /\ ncalls' = ncalls + 1
        /\ UNCHANGED <<ctLocals, maLocals>>

call_sat_vaporpres ==
    /\ pc = "idle"
    /\ \E x \in HeapVals :
        RunOnHeap("sat_vaporpres", <<"a">>, [o \in {"a"} |-> x])

call_rh ==
    /\ pc = "idle"
    /\ \E x \in HeapVals, y \in HeapVals, refs \in {<<"a", "b">>, <<"a", "a">>} :
        RunOnHeap("rh", refs, [o \in {"a", "b"} |-> IF o = "a" THEN x ELSE y])

\* the caller calls the same function again with the same argument objects
call_again ==
    /\ pc = "done"
    /\ fn \in {"sat_vaporpres", "rh"}
    /\ ncalls < MaxCalls
    /\ RunOnHeap(fn, args, heap)

\* the caller takes the outcome and drops its objects
finish ==
    /\ pc = "done"
    /\ pc' = "idle" /\ fn' = "none" /\ args' = <<>>
    /\ outcome' = NoOutcome /\ printed' = <<>>
    /\ z' = 0 /\ temp2' = 0
    /\ pres' = <<>> /\ temp' = <<>> /\ ip' = 0 /\ stages' = {}
    /\ heap' = <<>> /\ heap0' = <<>> /\ prevOutcome' = NoOutcome /\ ncalls' = 0

Next ==
    \/ call_compute_flux
    \/ call_compute_ustar
    \/ call_compute_tstar
    \/ call_compute_L
    \/ call_compute_temp
    \/ compute_temp_while
    \/ compute_temp_body
    \/ call_moist_adiabat
    \/ moist_adiabat_step
    \/ moist_adiabat_return
    \/ call_hydrostatic
    \/ call_sat_vaporpres
    \/ call_rh
    \/ call_again
    \/ finish

Spec == Init /\ [][Next]_vars

\* The interpreter keeps running the loop of compute_temp it is in.
FairSpec == Spec /\ WF_vars(compute_temp_while) /\ WF_vars(compute_temp_body)

(***************************************************************************)
(* Properties                                                              *)
(***************************************************************************)
Done(f) == pc = "done" /\ fn = f
IntegerPa(p) == p % 2 = 0
ShapeError == Raise("Both inputs must be same shape!")

\* C1: every call of compute_temp performs finitely many loop passes and then
\* returns: a call that is at its while test eventually ends.
C1_Terminates == (pc = "ct_while") ~> (pc = "done")

\* C2: whenever compute_temp returns, the running height z is within
\* tolerance of the target z2.
C2_StopsAtTarget ==
    (Done("compute_temp") /\ outcome.kind = "return")
        => Abs(args.z2 - z) < args.tolerance

\* C3: a call of moist_adiabat with p1 <= p2 never performs an integration
\* step and never returns a {'pres','temp'} profile.
C3_RejectsNotGreater ==
    (fn = "moist_adiabat" /\ args.p1 <= args.p2)
        => /\ pc # "ma_for"
           /\ stages = {}
           /\ outcome.val.cls # "dict"

\* C4: for integer-valued p1 > p2 > 0 the returned 'pres' is exactly
\* p1, p1-1, ..., p2: it starts at p1, steps down by 1 Pa and ends at p2.
C4_PresSequence ==
    (Done("moist_adiabat") /\ IntegerPa(args.p1) /\ IntegerPa(args.p2)
        /\ args.p1 > args.p2 /\ args.p2 > 0)
        => /\ outcome.kind = "return"
           /\ outcome.val.cls = "dict"
           /\ outcome.val.pres =
                [i \in 1..((args.p1 - args.p2) \div 2 + 1) |-> args.p1 - 2 * (i - 1)]

C4_Witness ==
    /\ Done("moist_adiabat")
    /\ IntegerPa(args.p1) /\ args.p2 = args.p1 - 4
    /\ outcome.val.cls = "dict"
    /\ outcome.val.pres = <<args.p1, args.p1 - 2, args.p2>>

\* the failure report of hydrostatic: a printed message and the value -1
HydroFailed == printed # <<>> /\ outcome = Return(Num(-1))

CallFails ==
    \/ fn = "hydrostatic" /\ (args.p1 < args.p2 \/ args.p2 = 0)
    \/ fn = "moist_adiabat" /\ args.p1 < args.p2

C7_InputsUnchanged ==
    (pc = "done" /\ fn \in {"sat_vaporpres", "rh"})
        => /\ heap = heap0
           /\ (ncalls >= 2 => outcome = prevOutcome)

\* C8: compute_flux raises, and returns no value, whenever its two arrays
\* differ in shape, and compute_ustar, compute_tstar and compute_L end in that
\* same exception whenever a pair they pass to compute_flux differs in shape.
C8_ShapeMismatchRaises ==
    /\ (Done("compute_flux") /\ args.A.shape # args.w.shape)
          => outcome = ShapeError
    /\ (Done("compute_ustar")
          /\ (args.u.shape # args.w.shape \/ args.v.shape # args.w.shape))
          => outcome = ShapeError
    /\ (pc = "done" /\ fn \in {"compute_tstar", "compute_L"}
          /\ args.temp.shape # args.w.shape)
          => outcome = ShapeError

C8_Witness ==
    /\ Done("compute_ustar")
    /\ args.u.shape = args.w.shape
    /\ args.v.shape # args.w.shape
    /\ Len(args.v.data) = Len(args.w.data)
    /\ outcome = ShapeError

C10_WithinInterval ==
    (fn = "moist_adiabat" /\ IntegerPa(args.p1) /\ IntegerPa(args.p2)
        /\ args.p1 > args.p2 /\ args.p2 > 0)
        => /\ \A q \in stages : args.p2 <= q /\ q <= args.p1
           /\ \A i \in 1..Len(temp) : args.p2 <= args.p1 + (i - 1) * dp

====
